---- MODULE Spec2Model ----
(***************************************************************************)
(* darkiv.py: a command-line pipeline that rasterizes a PDF with           *)
(* pdftocairo, inverts every page image with ImageMagick's convert and     *)
(* packs the inverted images with img2pdf.                                 *)
(*                                                                         *)
(* One run of main() is a record (run): its control position, its local    *)
(* variables, the files it can see and what it has printed.  The external  *)
(* tools are black boxes: every subprocess.run call is one step whose      *)
(* outcome (completed with the expected files, completed without them,     *)
(* or an exception raised by subprocess.run itself) is chosen by the       *)
(* environment.  twin is a second run over the same command line and the   *)
(* same tool outcomes, which differs only in what pdfinfo answers; it is   *)
(* advanced by SpecPair only.                                              *)
(***************************************************************************)
EXTENDS Integers, Sequences, FiniteSets, TLC

VARIABLES argv, installed, srcPages, run, twin

vars == <<argv, installed, srcPages, run, twin>>

----------------------------------------------------------------------------
(* Bounds of the model *)

\* Page counts of the source document: 1..SmallPages and MaxPages.
SmallPages == 3
MaxPages == 10
\* The page counts pdfinfo may report: -1..MaxCount.
MaxCount == 1

PageChoices == (1..SmallPages) \cup {MaxPages}

----------------------------------------------------------------------------
(* Program constants *)

\* create_progress_bar(current, total, width=50)
ProgressWidth == 50

None == "None"

Tools == {"pdftocairo", "convert", "img2pdf"}
ToolOrder == <<"pdftocairo", "convert", "img2pdf">>

\* The entries check_dependencies appends to `missing`.
MissingLabel(t) ==
    CASE t = "pdftocairo" -> "pdftocairo (poppler-utils)"
      [] t = "convert" -> "convert (ImageMagick)"
      [] t = "img2pdf" -> "img2pdf"

\* Paths of the documents a run can name: the input, the default output
\* (<stem>_darkiv), an output path naming no file yet and one naming a file
\* that is already there.
InPath == "in.pdf"
DefaultOut == "in_darkiv.pdf"
FreshOut == "out.pdf"
ExistingOut == "old.pdf"
DocPaths == {InPath, DefaultOut, FreshOut, ExistingOut}

Absent == [kind |-> "absent", pages |-> <<>>]
SourceDoc(n) == [kind |-> "source", pages |-> [p \in 1..n |-> p]]
StaleDoc == [kind |-> "stale", pages |-> <<>>]

----------------------------------------------------------------------------
(* File names, as the strings the code sorts *)

Max(a, b) == IF a >= b THEN a ELSE b

\* Number of decimal digits of n >= 1.
RECURSIVE Digits(_)
Digits(n) == IF n < 10 THEN 1 ELSE 1 + Digits(n \div 10)

\* Character codes of the decimal digits of p, zero-padded to width w.
RECURSIVE PadDigits(_, _)
PadDigits(p, w) ==
    IF w = 0 THEN <<>> ELSE Append(PadDigits(p \div 10, w - 1), 48 + (p % 10))

\* "page-" and ".png"
PagePrefix == <<112, 97, 103, 101, 45>>
PngSuffix == <<46, 112, 110, 103>>
\* "dark-"
DarkPrefix == <<100, 97, 114, 107, 45>>

\* The file pdftocairo -png <dir>/page writes for page p of an n-page
\* document: page-<p, zero-padded to the digits of n>.png
RasterName(n, p) == PagePrefix \o PadDigits(p, Digits(n)) \o PngSuffix

\* f"dark-{img_file.name}"
DarkName(name) == DarkPrefix \o name

\* Python's str ordering: the first differing character decides, a proper
\* prefix is smaller.
RECURSIVE LexLess(_, _)
LexLess(a, b) ==
    IF a = <<>> THEN b # <<>>
    ELSE IF b = <<>> THEN FALSE
    ELSE IF Head(a) # Head(b) THEN Head(a) < Head(b)
    ELSE LexLess(Tail(a), Tail(b))

\* sorted(list(S)): the ascending sequence of the names in S.
RECURSIVE SortedReverse(_)
SortedReverse(S) ==
    IF S = {} THEN <<>>
    ELSE LET m == CHOOSE x \in S : \A y \in S \ {x} : LexLess(y, x)
         IN  <<m>> \o SortedReverse(S \ {m})

RECURSIVE Sorted(_)
Sorted(S) ==
    IF S = {} THEN <<>>
    ELSE LET m == CHOOSE x \in S : \A y \in S \ {x} : LexLess(x, y)
         IN  <<m>> \o Sorted(S \ {m})

\* temp_dir_path.glob("page-*.png"): dark-page-*.png does not match.
IsRasterName(name) ==
    /\ Len(name) >= Len(PagePrefix) + Len(PngSuffix)
    /\ SubSeq(name, 1, Len(PagePrefix)) = PagePrefix
    /\ SubSeq(name, Len(name) - Len(PngSuffix) + 1, Len(name)) = PngSuffix

Glob(tempFiles) == {name \in DOMAIN tempFiles : IsRasterName(name)}

Range(f) == {f[x] : x \in DOMAIN f}

----------------------------------------------------------------------------
(* get_page_count *)

\* What get_page_count hands back: a count, or None (known = FALSE);
\* raised = TRUE stands for an exception leaving the function.
Unknown == [raised |-> FALSE, known |-> FALSE, count |-> 0]
Known(c) == [raised |-> FALSE, known |-> TRUE, count |-> c]
Raises == [raised |-> TRUE, known |-> FALSE, count |-> 0]

\* What running pdfinfo can come to: subprocess.run raises (no such
\* executable), pdfinfo exits non-zero with no report, the report has no
\* "Pages:" line, the text after "Pages:" is no integer, or it is integer c.
PdfinfoOutcomes ==
    [kind : {"raise", "nonzero", "noline", "malformed"}, count : {0}]
        \cup [kind : {"count"}, count : (0 - 1)..MaxCount]

\* A variant that catches FileNotFoundError only: int() of a malformed
\* count raises ValueError out of the function.
PageCountNarrowExcept(o) ==
    CASE o.kind = "raise" -> Unknown
      [] o.kind \in {"nonzero", "noline"} -> Unknown
      [] o.kind = "malformed" -> Raises
      [] o.kind = "count" -> Known(o.count)

PageCountResult(o) ==
    CASE o.kind = "raise" -> Unknown
      [] o.kind \in {"nonzero", "noline"} -> Unknown
      [] o.kind = "malformed" -> Unknown
      [] o.kind = "count" -> Known(o.count)

----------------------------------------------------------------------------
(* create_progress_bar *)

\* "x" * k is the empty string for k <= 0.
Repeat(k) == Max(0, k)

create_progress_bar(current, total, width) ==
    LET progress == (width * current) \div total
    IN  [filled |-> Repeat(progress),
         empty |-> Repeat(width - progress),
         percentage |-> (100 * current) \div total,
         current |-> current,
         total |-> total]

----------------------------------------------------------------------------
(* The state of one run *)

Call(tool, probe, doc, src, dst, images) ==
    [tool |-> tool, probe |-> probe, doc |-> doc, src |-> src, dst |-> dst,
     images |-> images]

InitRun(n) ==
    [pc |-> "ValidateInput",
     stages |-> <<"ValidateInput">>,
     exited |-> FALSE,
     exitCode |-> 0,
     abortFrom |-> None,
     cause |-> None,
     retval |-> "None",
     calls |-> <<>>,
     messages |-> <<>>,
     missing |-> <<>>,
     guidance |-> {},
     depsOk |-> "None",
     output_path |-> None,
     lookup |-> Unknown,
     page_count |-> 0,
     tempDir |-> "none",
     tempFiles |-> <<>>,
     rasterRan |-> FALSE,
     rasterLeft |-> 0,
     image_files |-> <<>>,
     dark_mode_images |-> <<>>,
     i |-> 0,
     progress |-> <<>>,
     files |-> [p \in DocPaths |->
                  IF p = InPath
                  THEN (IF argv.input \in {"file", "noname"}
                        THEN SourceDoc(n) ELSE Absent)
                  ELSE (IF p = ExistingOut THEN StaleDoc ELSE Absent)]]

Goto(s, pc) == [s EXCEPT !.pc = pc, !.stages = Append(@, pc)]

\* A variant whose sys.exit() calls pass no status.
AbortExitsZero(s, cause) ==
    [s EXCEPT !.pc = "Abort", !.stages = Append(@, "Abort"),
              !.abortFrom = s.pc, !.cause = cause,
              !.exited = TRUE, !.exitCode = 0]

\* sys.exit(1), or an exception nobody catches: the interpreter exits with
\* status 1.
Abort(s, cause) ==
    [s EXCEPT !.pc = "Abort", !.stages = Append(@, "Abort"),
              !.abortFrom = s.pc, !.cause = cause,
              !.exited = TRUE, !.exitCode = 1]

\* TemporaryDirectory.__exit__: the directory and all it holds are removed,
\* on return and on an exception alike.
CleanupKeepOnException(s, raised) ==
    IF raised THEN s ELSE [s EXCEPT !.tempDir = "removed", !.tempFiles = <<>>]

Cleanup(s, raised) == [s EXCEPT !.tempDir = "removed", !.tempFiles = <<>>]

----------------------------------------------------------------------------
(* main, lines 130-138: the command line *)

\* A variant that probes the tools before it looks at the input path.
ValidateInputLate(s) ==
    IF argv.input = "none"
    THEN Abort([s EXCEPT !.messages = Append(@, "usage")], "usage")
    ELSE Goto(s, "CheckDependencies")

ValidateInputStep(s) ==
    IF argv.input = "none"
    THEN Abort([s EXCEPT !.messages = Append(@, "usage")], "usage")
    ELSE IF argv.input = "missing"
    THEN Abort([s EXCEPT !.messages = Append(@, "input does not exist")],
               "input not found")
    ELSE Goto(s, "CheckDependencies")

----------------------------------------------------------------------------
(* check_dependencies, and main's lines 140-141 *)

\* subprocess.run([tool, <version flag>]) raises FileNotFoundError exactly
\* when the executable is not installed.
ProbeRaises(t) == t \notin installed

\* missing, as the three try/except blocks build it, in their order.
RECURSIVE MissingFrom(_)
MissingFrom(j) ==
    IF j > Len(ToolOrder) THEN <<>>
    ELSE (IF ProbeRaises(ToolOrder[j]) THEN <<MissingLabel(ToolOrder[j])>>
          ELSE <<>>) \o MissingFrom(j + 1)

\* A variant whose second install hint tests the wrong label.
InstallGuidanceWrongLabel(missing) ==
    {"sudo apt-get update"}
    \cup (IF "pdftocairo (poppler-utils)" \in Range(missing)
          THEN {"poppler-utils"} ELSE {})
    \cup (IF "convert" \in Range(missing) THEN {"imagemagick"} ELSE {})
    \cup (IF "img2pdf" \in Range(missing)
          THEN {"python3-pip", "pip3 install img2pdf"} ELSE {})

\* The install lines printed for a non-empty `missing`.
InstallGuidance(missing) ==
    {"sudo apt-get update"}
    \cup (IF "pdftocairo (poppler-utils)" \in Range(missing)
          THEN {"poppler-utils"} ELSE {})
    \cup (IF "convert (ImageMagick)" \in Range(missing)
          THEN {"imagemagick"} ELSE {})
    \cup (IF "img2pdf" \in Range(missing)
          THEN {"python3-pip", "pip3 install img2pdf"} ELSE {})

ProbeCalls == [j \in 1..Len(ToolOrder) |->
                 Call(ToolOrder[j], TRUE, "", <<>>, <<>>, <<>>)]

CheckDependenciesStep(s) ==
    LET missing == MissingFrom(1)
        probed == [s EXCEPT !.calls = @ \o ProbeCalls, !.missing = missing]
    IN  IF missing # <<>>
        THEN Abort([probed EXCEPT
                       !.messages = Append(@, "dependencies are missing"),
                       !.guidance = InstallGuidance(missing),
                       !.depsOk = "False"],
                   "missing dependency")
        ELSE Goto([probed EXCEPT !.depsOk = "True"], "Convert")

----------------------------------------------------------------------------
(* convert_to_dark_mode, lines 68-76: output path and page count *)

\* Path(input_path).with_stem(...) raises ValueError for a path with an
\* empty name ("." or "/").
DefaultOutputRaises == argv.output = "absent" /\ argv.input = "noname"

OutputPath ==
    CASE argv.output = "absent" -> DefaultOut
      [] argv.output = "fresh" -> FreshOut
      [] argv.output = "existing" -> ExistingOut
      [] argv.output = "same" -> InPath

ConvertStep(s, o) ==
    IF DefaultOutputRaises
    THEN Abort(s, "exception")
    ELSE LET r == PageCountResult(o)
             t == [s EXCEPT
                     !.output_path = OutputPath,
                     !.messages = Append(@, "Converting"),
                     !.calls = Append(@, Call("pdfinfo", FALSE, InPath,
                                              <<>>, <<>>, <<>>)),
                     !.lookup = r,
                     !.page_count = IF r.known THEN r.count ELSE 0]
         IN  IF r.raised THEN Abort(t, "exception") ELSE Goto(t, "Rasterize")

----------------------------------------------------------------------------
(* convert_to_dark_mode, lines 78-94: the working directory, pdftocairo *)

\* What running pdftocairo can come to: subprocess.run raises, or the tool
\* ran and left the images of pages 1..k (k = n when it succeeded).
RasterOutcomes(n) ==
    [raised : {TRUE}, k : {0}]
        \cup [raised : {FALSE},
              k : IF argv.input = "file" THEN 0..n ELSE {0}]

RasterFiles(n, k) ==
    [name \in {RasterName(n, p) : p \in 1..k} |->
        [page |-> CHOOSE p \in 1..k : RasterName(n, p) = name,
         inverted |-> FALSE]]

\* A variant without the "if not image_files" test.
EmptyExtractionIgnored(s) == Goto(s, "Assemble")

\* Lines 92-94: nothing was extracted.
EmptyExtraction(s) ==
    Abort(Cleanup([s EXCEPT !.messages = Append(@, "No images were extracted"),
                            !.retval = "False"], FALSE),
          "no pages")

\* A variant that takes the directory listing in reverse order.
ImageFilesReversed(tempFiles) == SortedReverse(Glob(tempFiles))

\* Line 90: sorted(list(temp_dir_path.glob("page-*.png")))
ImageFiles(tempFiles) == Sorted(Glob(tempFiles))

RasterizeStep(s, o) ==
    LET made == [s EXCEPT
                   !.tempDir = "exists",
                   !.messages = Append(@, "Extracting"),
                   !.calls = Append(@, Call("pdftocairo", FALSE, InPath,
                                            <<>>, PagePrefix, <<>>))]
    IN  IF o.raised
        THEN Abort(Cleanup(made, TRUE), "exception")
        ELSE LET t == [made EXCEPT !.tempFiles = RasterFiles(srcPages, o.k),
                                   !.rasterRan = TRUE,
                                   !.rasterLeft = o.k]
                 image_files == ImageFiles(t.tempFiles)
             IN  IF image_files = <<>>
                 THEN EmptyExtraction(t)
                 ELSE Goto([t EXCEPT !.image_files = image_files,
                                     !.messages = Append(@, "applying"),
                                     !.dark_mode_images = <<>>,
                                     !.i = 0],
                           "Invert")

----------------------------------------------------------------------------
(* convert_to_dark_mode, lines 99-116: one turn of the inversion loop *)

ToolOutcomes == {"ok", "fail", "raise"}

\* A variant that shows the bar against the looked-up page count.
ProgressAgainstPageCount(s) ==
    IF s.page_count > 0
    THEN Append(s.progress,
                create_progress_bar(s.i + 1, s.page_count, ProgressWidth))
    ELSE s.progress

\* Lines 114-116.
ProgressUpdate(s) ==
    IF s.page_count > 0
    THEN Append(s.progress,
                create_progress_bar(s.i + 1, Len(s.image_files), ProgressWidth))
    ELSE s.progress

InvertStep(s, o) ==
    LET img_file == s.image_files[s.i + 1]
        dark_img_file == DarkName(img_file)
        called == [s EXCEPT !.calls = Append(@, Call("convert", FALSE, "",
                                                     img_file, dark_img_file,
                                                     <<>>))]
    IN  IF o = "raise"
        THEN Abort(Cleanup(called, TRUE), "exception")
        ELSE LET t == [called EXCEPT
                         !.tempFiles =
                             IF o = "ok"
                             THEN (dark_img_file :>
                                     [page |-> s.tempFiles[img_file].page,
                                      inverted |-> TRUE]) @@ @
                             ELSE @,
                         !.dark_mode_images = Append(@, dark_img_file),
                         !.progress = ProgressUpdate(s),
                         !.i = @ + 1]
             IN  IF t.i = Len(t.image_files) THEN Goto(t, "Assemble") ELSE t

----------------------------------------------------------------------------
(* convert_to_dark_mode, lines 118-127: img2pdf, and main's last lines *)

\* img2pdf can only pack images that exist.
AssembleOutcomes(s) ==
    IF \A j \in 1..Len(s.dark_mode_images) :
           s.dark_mode_images[j] \in DOMAIN s.tempFiles
    THEN ToolOutcomes
    ELSE {"fail", "raise"}

AssembledDoc(s) ==
    [kind |-> "dark",
     pages |-> [j \in 1..Len(s.dark_mode_images) |->
                  s.tempFiles[s.dark_mode_images[j]].page]]

AssembleStep(s, o) ==
    LET called == [s EXCEPT
                     !.messages = Append(@, "combining"),
                     !.calls = Append(@, Call("img2pdf", FALSE, s.output_path,
                                              <<>>, <<>>, s.dark_mode_images))]
    IN  IF o = "raise"
        THEN Abort(Cleanup(called, TRUE), "exception")
        ELSE LET t == [called EXCEPT
                         !.files = IF o = "ok"
                                   THEN [@ EXCEPT ![s.output_path] =
                                                      AssembledDoc(s)]
                                   ELSE @,
                         !.messages = Append(@, "created successfully"),
                         !.retval = "True"]
             IN  [Goto(Cleanup(t, FALSE), "Done") EXCEPT
                     !.exited = TRUE, !.exitCode = 0]

----------------------------------------------------------------------------
(* One run *)

Init ==
    /\ argv \in [input : {"none", "missing", "file", "noname"},
                 output : {"absent", "fresh", "existing", "same"}]
    /\ installed \in SUBSET Tools
    /\ srcPages \in PageChoices
    /\ run = InitRun(srcPages)
    /\ twin = run

Frame == UNCHANGED <<argv, installed, srcPages>>

ValidateInput ==
    /\ run.pc = "ValidateInput"
    /\ run' = ValidateInputStep(run)
    /\ UNCHANGED twin /\ Frame

CheckDependencies ==
    /\ run.pc = "CheckDependencies"
    /\ run' = CheckDependenciesStep(run)
    /\ UNCHANGED twin /\ Frame

Convert ==
    /\ run.pc = "Convert"
    /\ \E o \in PdfinfoOutcomes : run' = ConvertStep(run, o)
    /\ UNCHANGED twin /\ Frame

Rasterize ==
    /\ run.pc = "Rasterize"
    /\ \E o \in RasterOutcomes(srcPages) : run' = RasterizeStep(run, o)
    /\ UNCHANGED twin /\ Frame

Invert ==
    /\ run.pc = "Invert"
    /\ \E o \in ToolOutcomes : run' = InvertStep(run, o)
    /\ UNCHANGED twin /\ Frame

Assemble ==
    /\ run.pc = "Assemble"
    /\ \E o \in AssembleOutcomes(run) : run' = AssembleStep(run, o)
    /\ UNCHANGED twin /\ Frame

Next ==
    \/ ValidateInput
    \/ CheckDependencies
    \/ Convert
    \/ Rasterize
    \/ Invert
    \/ Assemble

Spec == Init /\ [][Next]_vars

----------------------------------------------------------------------------
(* Two runs that differ only in pdfinfo's answer *)

\* Advance r by the step of stage pc, if that is where r is.
At(r, pc, next) == IF r.pc = pc THEN next ELSE r

PairValidateInput ==
    /\ run.pc = "ValidateInput"
    /\ run' = ValidateInputStep(run)
    /\ twin' = At(twin, "ValidateInput", ValidateInputStep(twin))
    /\ Frame

PairCheckDependencies ==
    /\ run.pc = "CheckDependencies"
    /\ run' = CheckDependenciesStep(run)
    /\ twin' = At(twin, "CheckDependencies", CheckDependenciesStep(twin))
    /\ Frame

PairConvert ==
    /\ run.pc = "Convert"
    /\ \E o1, o2 \in PdfinfoOutcomes :
          /\ run' = ConvertStep(run, o1)
          /\ twin' = At(twin, "Convert", ConvertStep(twin, o2))
    /\ Frame

PairRasterize ==
    /\ run.pc = "Rasterize"
    /\ \E o \in RasterOutcomes(srcPages) :
          /\ run' = RasterizeStep(run, o)
          /\ twin' = At(twin, "Rasterize", RasterizeStep(twin, o))
    /\ Frame

PairInvert ==
    /\ run.pc = "Invert"
    /\ \E o \in ToolOutcomes :
          /\ run' = InvertStep(run, o)
          /\ twin' = At(twin, "Invert", InvertStep(twin, o))
    /\ Frame

PairAssemble ==
    /\ run.pc = "Assemble"
    /\ \E o \in AssembleOutcomes(run) :
          /\ run' = AssembleStep(run, o)
          /\ twin' = At(twin, "Assemble", AssembleStep(twin, o))
    /\ Frame

PairNext ==
    \/ PairValidateInput
    \/ PairCheckDependencies
    \/ PairConvert
    \/ PairRasterize
    \/ PairInvert
    \/ PairAssemble

SpecPair == Init /\ [][PairNext]_vars

----------------------------------------------------------------------------
(* Vocabulary of the properties *)

Terminal(r) == r.pc \in {"Abort", "Done"}

\* The invocations that are not check_dependencies' version probes.
ToolCalls(r) == SelectSeq(r.calls, LAMBDA c : ~c.probe)
CallsOf(r, tool) == SelectSeq(ToolCalls(r), LAMBDA c : c.tool = tool)

InitialFiles == InitRun(srcPages).files

\* The stage of the orchestrator's state machine a control position is in:
\* lines 68-76 of convert_to_dark_mode lead into the rasterization.
Rank(pc) ==
    CASE pc = "ValidateInput" -> 1
      [] pc = "CheckDependencies" -> 2
      [] pc \in {"Convert", "Rasterize"} -> 3
      [] pc = "Invert" -> 4
      [] pc = "Assemble" -> 5
      [] pc = "Done" -> 6
      [] pc = "Abort" -> 7

\* The stages entered so far go forward one stage at a time, none twice,
\* and nothing follows Done or Abort.
ForwardOnly(r) ==
    /\ r.stages[Len(r.stages)] = r.pc
    /\ \A j, k \in 1..Len(r.stages) : j # k => r.stages[j] # r.stages[k]
    /\ \A j \in 1..(Len(r.stages) - 1) :
          /\ r.stages[j] \notin {"Done", "Abort"}
          /\ \/ r.stages[j + 1] = "Abort"
             \/ Rank(r.stages[j + 1]) = Rank(r.stages[j]) + 1
             \/ r.stages[j] = "Convert" /\ r.stages[j + 1] = "Rasterize"

ExitCodes(r) ==
    /\ r.exited <=> Terminal(r)
    /\ r.pc = "Abort" => r.exitCode = 1
    /\ r.pc = "Done" => r.exitCode = 0

\* The three ways into Abort that the orchestrator's state machine names.
DeclaredAbort(r) ==
    \/ r.abortFrom = "ValidateInput" /\ r.cause \in {"usage", "input not found"}
    \/ r.abortFrom = "CheckDependencies" /\ r.cause = "missing dependency"
    \/ r.abortFrom = "Rasterize" /\ r.cause = "no pages"

\* An exception nobody catches: with_stem or a subprocess.run call raised.
UncaughtException(r) ==
    /\ r.cause = "exception"
    /\ r.abortFrom \in {"Convert", "Rasterize", "Invert", "Assemble"}

----------------------------------------------------------------------------
(* C1 *)

\* C1, as stated: the stages are entered in the order ValidateInput,
\* CheckDependencies, Rasterize, Invert, Assemble, Done, none twice and
\* never backwards; Abort is entered only from ValidateInput (no argument,
\* no such file), CheckDependencies (a tool is missing) or Rasterize (no
\* pages); the exit status is 1 in Abort and 0 in Done.
C1_AbortOnlyFromDeclaredStages ==
    /\ ForwardOnly(run)
    /\ ExitCodes(run)
    /\ run.pc = "Abort" => DeclaredAbort(run)

\* C1, amended: as above, except that Abort (exit status 1) is also entered
\* when an exception leaves convert_to_dark_mode uncaught: from the default
\* output path of an input with an empty name, or from the pdftocairo,
\* convert or img2pdf invocation raising.
C1_StageOrder ==
    /\ ForwardOnly(run)
    /\ ExitCodes(run)
    /\ run.pc = "Abort" => DeclaredAbort(run) \/ UncaughtException(run)

C1_Witness ==
    /\ run.pc = "Abort"
    /\ run.abortFrom = "Invert"
    /\ run.cause = "exception"
    /\ run.exitCode = 1
    /\ run.stages = <<"ValidateInput", "CheckDependencies", "Convert",
                      "Rasterize", "Invert", "Abort">>

----------------------------------------------------------------------------
(* C2 *)

\* C2: once convert_to_dark_mode has been left, by return or by an
\* exception, the working directory it created and every raster and
\* inverted image in it are gone.
C2_WorkingDirectoryRemoved ==
    Terminal(run) =>
        /\ run.tempDir # "exists"
        /\ DOMAIN run.tempFiles = {}
        /\ Len(CallsOf(run, "pdftocairo")) > 0 => run.tempDir = "removed"

C2_Witness ==
    /\ run.pc = "Abort"
    /\ run.abortFrom = "Invert"
    /\ run.cause = "exception"
    /\ run.i >= 1
    /\ run.tempDir = "removed"
    /\ DOMAIN run.tempFiles = {}

----------------------------------------------------------------------------
(* C3 *)

\* The convert invocation on image_files[j] comes before position k of
\* the invocations.
InvertedBefore(r, j, k) ==
    \E m \in 1..(k - 1) :
        /\ ToolCalls(r)[m].tool = "convert"
        /\ ToolCalls(r)[m].src = r.image_files[j]
        /\ ToolCalls(r)[m].dst = DarkName(r.image_files[j])

\* C3: img2pdf is invoked at most once (once in a run that reaches Done),
\* after a convert invocation for every raster image; its arguments are one
\* inverted image per raster image, the j-th being the inversion of the
\* image of source page j, also for documents of ten pages and more.
C3_AssemblerArgumentsInPageOrder ==
    /\ Len(CallsOf(run, "img2pdf")) <= 1
    /\ run.pc = "Done" => Len(CallsOf(run, "img2pdf")) = 1
    /\ \A j \in 1..Len(run.image_files) :
          run.image_files[j] = RasterName(srcPages, j)
    /\ \A j \in 1..Len(run.dark_mode_images) :
          run.dark_mode_images[j] = DarkName(RasterName(srcPages, j))
    /\ \A k \in 1..Len(ToolCalls(run)) :
          ToolCalls(run)[k].tool = "img2pdf" =>
              /\ Len(ToolCalls(run)[k].images) = Len(run.image_files)
              /\ Len(run.image_files) = run.rasterLeft
              /\ \A j \in 1..Len(run.image_files) :
                    /\ ToolCalls(run)[k].images[j]
                          = DarkName(RasterName(srcPages, j))
                    /\ InvertedBefore(run, j, k)
    /\ run.pc = "Done" /\ run.files[run.output_path].kind = "dark" =>
          run.files[run.output_path].pages
              = [j \in 1..Len(run.image_files) |-> j]

C3_Witness ==
    /\ run.pc = "Done"
    /\ srcPages >= 10
    /\ Len(run.image_files) = srcPages
    /\ Len(CallsOf(run, "img2pdf")) = 1
    /\ run.files[run.output_path].kind = "dark"

----------------------------------------------------------------------------
(* C4 *)

\* The tools a dependency report names, and the tools its install lines are
\* for.
ToolsReported(missing) ==
    {t \in Tools : MissingLabel(t) \in Range(missing)}

ToolsGuided(guidance) ==
    {t \in Tools :
        \/ t = "pdftocairo" /\ "poppler-utils" \in guidance
        \/ t = "convert" /\ "imagemagick" \in guidance
        \/ t = "img2pdf" /\ "pip3 install img2pdf" \in guidance}

\* C4: when some of the three tools are missing, the run exits with status
\* 1 having invoked nothing but the version probes (no working directory,
\* no document touched) and the report and the install lines name exactly
\* the missing tools; when none is missing, check_dependencies succeeds and
\* prints nothing.
C4_MissingDependencyReport ==
    run.depsOk # "None" =>
        IF installed # Tools
        THEN /\ run.depsOk = "False"
             /\ run.pc = "Abort" /\ run.exitCode = 1
             /\ ToolCalls(run) = <<>>
             /\ run.tempDir = "none"
             /\ run.files = InitialFiles
             /\ "dependencies are missing" \in Range(run.messages)
             /\ ToolsReported(run.missing) = Tools \ installed
             /\ ToolsGuided(run.guidance) = Tools \ installed
        ELSE /\ run.depsOk = "True"
             /\ run.missing = <<>>
             /\ run.guidance = {}
             /\ "dependencies are missing" \notin Range(run.messages)

C4_Witness ==
    /\ run.pc = "Abort"
    /\ run.abortFrom = "CheckDependencies"
    /\ installed = {"pdftocairo"}
    /\ ToolsReported(run.missing) = {"convert", "img2pdf"}
    /\ ToolsGuided(run.guidance) = {"convert", "img2pdf"}

----------------------------------------------------------------------------
(* C5 *)

\* C5: with an input path that does not exist the run exits with status 1
\* and has invoked no process (no probe, no pdfinfo, no pdftocairo), made no
\* working directory and left every document as it was.
C5_MissingInputNoSideEffects ==
    argv.input = "missing" /\ run.pc # "ValidateInput" =>
        /\ run.pc = "Abort" /\ run.exitCode = 1
        /\ run.abortFrom = "ValidateInput"
        /\ run.calls = <<>>
        /\ run.tempDir = "none"
        /\ run.files = InitialFiles

C5_Witness ==
    /\ argv.input = "missing"
    /\ run.pc = "Abort"
    /\ run.exitCode = 1
    /\ "input does not exist" \in Range(run.messages)

----------------------------------------------------------------------------
(* C6 *)

\* C6: when pdftocairo has run and left no page image, neither convert nor
\* img2pdf is invoked, no document is created or changed, the working
\* directory is removed, convert_to_dark_mode returns False and the run
\* exits with status 1.
C6_EmptyExtractionAborts ==
    run.rasterRan /\ run.rasterLeft = 0 =>
        /\ run.pc = "Abort" /\ run.exitCode = 1
        /\ run.retval = "False"
        /\ CallsOf(run, "convert") = <<>>
        /\ CallsOf(run, "img2pdf") = <<>>
        /\ run.files = InitialFiles
        /\ run.tempDir = "removed"
        /\ "No images were extracted" \in Range(run.messages)

C6_Witness ==
    /\ run.rasterRan
    /\ run.rasterLeft = 0
    /\ run.pc = "Abort"
    /\ run.cause = "no pages"
    /\ argv.output = "existing"

----------------------------------------------------------------------------
(* C7 *)

\* C7: the output document is not written before the assembly succeeds,
\* and a run that reports success (the confirmation message, True, exit
\* status 0) has an output document of as many pages as the source,
\* whatever the single pdftocairo, convert and img2pdf invocations did.
C7_SuccessMeansCompleteOutput ==
    /\ run.pc # "Done" => run.files = InitialFiles
    /\ run.pc = "Done" =>
          /\ run.files[run.output_path].kind = "dark"
          /\ Len(run.files[run.output_path].pages) = srcPages

----------------------------------------------------------------------------
(* C8 *)

\* C8: the source document is never written: whatever the output argument
\* (none, a new path, the input path itself), its content after the run is
\* its content before the run.
C8_SourceDocumentUnchanged ==
    run.files[InPath] = InitialFiles[InPath]

----------------------------------------------------------------------------
(* C9 *)

\* C9: get_page_count lets no exception out and hands back an integer or
\* None, and two runs that differ only in what pdfinfo did invoke the same
\* tools with the same arguments in the same order, are at the same stage,
\* exit with the same status and leave the same documents; only the
\* progress display may differ.
C9_PageCountNoninterference ==
    /\ ~run.lookup.raised /\ ~twin.lookup.raised
    /\ ~run.lookup.known => run.lookup = Unknown
    /\ run.lookup.known => run.lookup.count \in Int
    /\ run.pc = twin.pc
    /\ run.calls = twin.calls
    /\ run.exited = twin.exited /\ run.exitCode = twin.exitCode
    /\ run.retval = twin.retval
    /\ run.files = twin.files
    /\ run.tempFiles = twin.tempFiles

C9_Witness ==
    /\ run.pc = "Done" /\ twin.pc = "Done"
    /\ run.lookup.known /\ run.lookup.count # Len(run.image_files)
    /\ run.lookup.count > 0
    /\ ~twin.lookup.known
    /\ run.progress # twin.progress
    /\ run.files[run.output_path].kind = "dark"

----------------------------------------------------------------------------
(* C10 *)

\* q is the integer part of a / b, for a >= 0 and b > 0.
IsFloor(q, a, b) == q * b <= a /\ a < (q + 1) * b

\* The j-th progress update of r, shown against `total`.
WellFormedUpdate(r, j, total) ==
    LET u == r.progress[j]
    IN  /\ u.current = j
        /\ u.total = total
        /\ u.filled + u.empty = ProgressWidth
        /\ IsFloor(u.filled, ProgressWidth * j, total)
        /\ IsFloor(u.percentage, 100 * j, total)
        /\ u.percentage \in 0..100

LastUpdateFull(r) ==
    r.pc \in {"Assemble", "Done"} /\ r.progress # <<>> =>
        LET u == r.progress[Len(r.progress)]
        IN  u.filled = ProgressWidth /\ u.empty = 0 /\ u.percentage = 100

\* C10, as stated: an update is written after each image exactly when the
\* page-count lookup gave a count; the updates count 1/total, 2/total, ...
\* with total the looked-up page count, the bar has 50 cells of which
\* floor(50*current/total) are filled, the percentage is
\* floor(100*current/total) within 0..100, and the last update is a full
\* bar at 100%.
C10_ProgressAgainstKnownCount ==
    /\ Len(run.progress) = IF run.lookup.known THEN run.i ELSE 0
    /\ \A j \in 1..Len(run.progress) :
          run.lookup.count > 0 /\ WellFormedUpdate(run, j, run.lookup.count)
    /\ LastUpdateFull(run)

\* C10, amended: an update is written after each image exactly when the
\* looked-up page count is known and greater than 0; total is the number
\* of raster images found, not the looked-up count; the rest as stated.
C10_ProgressAgainstImageCount ==
    /\ Len(run.progress)
          = IF run.lookup.known /\ run.lookup.count > 0 THEN run.i ELSE 0
    /\ \A j \in 1..Len(run.progress) :
          WellFormedUpdate(run, j, Len(run.image_files))
    /\ LastUpdateFull(run)

C10_Witness ==
    /\ run.pc = "Done"
    /\ run.lookup.known
    /\ Len(run.image_files) = 3
    /\ run.lookup.count # Len(run.image_files)
    /\ Len(run.progress) = 3
    /\ run.progress[1].filled = 16
    /\ run.progress[1].percentage = 33

====
